---- MODULE Spec2Model ----
(***************************************************************************)
(* A model of the household-appliance scenario tool: the Result wrapper    *)
(* (src/utils.ts), the entry point (src/unnamed/part_000) and the domain   *)
(* classes, controller and loader (src/unnamed/part_001).                  *)
(*                                                                         *)
(* Representation.  A text that the program trims or lower-cases (a        *)
(* command line, an appliance name read from the file) is a sequence of    *)
(* atoms: the atom " " is a run of white space, every other atom is a run  *)
(* of non-blank characters.  A text that the program only compares or      *)
(* parses (a scenario name, a date, a menu choice) is a TLA+ string; ""    *)
(* stands for what prompt() returns when nothing is entered (null or the   *)
(* empty string, both falsy).  A console line is a record with a kind and  *)
(* the values the line renders.  A JavaScript value is a record tagged by  *)
(* its type in field t.                                                    *)
(***************************************************************************)
EXTENDS Integers, Sequences, FiniteSets, TLC

VARIABLES
    pc,                  \* "start" | "exited" | "awaiting" | "done"
    file,                \* the catalog file on disk (fixed environment)
    possibleAppliances,  \* App._possibleAppliances
    scenarios,           \* App._scenarios
    selected,            \* index found by the last name lookup (0: none)
    stdin,               \* what prompt() returned to the last loop iteration
    console,             \* the lines the last step wrote to the console
    created,             \* history variable: create_scenario commands run
    tcPromise,           \* tryCatch's argument (settled promise)
    tcResult             \* what tryCatch returned for it

vars == <<pc, file, possibleAppliances, scenarios, selected, stdin, console,
          created, tcPromise, tcResult>>

\* ---------------------------------------------------------------- bounds

MaxScenarios == 2

\* ------------------------------------------------------ JavaScript values

Undefined == [t |-> "undefined"]

Null == [t |-> "null"]

Str(s) == [t |-> "string", str |-> s]

Num(n) == [t |-> "number", num |-> n]

Bool(b) == [t |-> "boolean", bool |-> b]

Error(m) == [t |-> "error", message |-> m]

\* ToBoolean, as `if (error)` and `if (fileResult.error)` apply it.
Truthy(v) ==
    CASE v.t = "undefined" -> FALSE
      [] v.t = "null" -> FALSE
      [] v.t = "string" -> v.str # ""
      [] v.t = "number" -> v.num # 0
      [] v.t = "boolean" -> v.bool
      [] OTHER -> TRUE

\* Property read obj.key: undefined when the object has no such key.
Get(obj, key) == IF key \in DOMAIN obj THEN obj[key] ELSE Undefined

Fulfilled(v) == [state |-> "fulfilled", value |-> v]

Rejected(e) == [state |-> "rejected", reason |-> e]

\* ------------------------------------------------------------ src/utils.ts

\* A wrapper whose catch clause loses the failure and reports success.
tryCatchSwallow(promise) ==
    IF promise.state = "fulfilled"
    THEN Fulfilled([data |-> promise.value])
    ELSE Fulfilled([data |-> promise.reason])

\* async tryCatch: the returned promise, settled.
tryCatch(promise) ==
    IF promise.state = "fulfilled"
    THEN Fulfilled([data |-> promise.value])
    ELSE Fulfilled([error |-> promise.reason])

\* ------------------------------------------------------------- text atoms

RECURSIVE TrimStart(_)
TrimStart(s) ==
    IF s = <<>> THEN s
    ELSE IF Head(s) = " " THEN TrimStart(Tail(s)) ELSE s

RECURSIVE TrimEnd(_)
TrimEnd(s) ==
    IF s = <<>> THEN s
    ELSE IF s[Len(s)] = " " THEN TrimEnd(SubSeq(s, 1, Len(s) - 1)) ELSE s

Trim(s) == TrimEnd(TrimStart(s))

ToLowerAtom(a) ==
    CASE a = "EXIT" -> "exit"
      [] a = "List_Scenarios" -> "list_scenarios"
      [] a = "Create_Scenario" -> "create_scenario"
      [] a = "DELETE_SCENARIO" -> "delete_scenario"
      [] a = "Help" -> "help"
      [] OTHER -> a

ToLowerCase(s) == [i \in 1..Len(s) |-> ToLowerAtom(s[i])]

\* ------------------------------------------------- the catalog file (input)

Fridge ==
    [name |-> <<"Fridge">>, powerConsumption |-> 150, embodiedEmissions |-> 50,
     usageMode |-> "ALWAYS_ON", hasParameters |-> FALSE, parameters |-> {}]

Lamp ==
    [name |-> <<" ", "Lamp">>, powerConsumption |-> 0, embodiedEmissions |-> 3,
     usageMode |-> "ON_DEMAND", hasParameters |-> TRUE,
     parameters |-> {<<"dimmable", "yes">>}]

NegativePower == [Fridge EXCEPT !.powerConsumption = -1]

NegativeEmissions == [Lamp EXCEPT !.embodiedEmissions = -5]

BadUsageMode == [Fridge EXCEPT !.usageMode = "SOMETIMES"]

EmptyName == [Fridge EXCEPT !.name = <<>>]

BlankName == [Lamp EXCEPT !.name = <<" ">>]

\* json: "invalid" (not JSON), "object" (JSON, but no array), "array".
FileOf(readable, json, entries) ==
    [readable |-> readable, json |-> json, entries |-> entries]

Files ==
    {FileOf(FALSE, "array", <<Fridge>>),
     FileOf(TRUE, "invalid", <<>>),
     FileOf(TRUE, "object", <<>>),
     FileOf(TRUE, "array", <<>>),
     FileOf(TRUE, "array", <<Fridge>>),
     FileOf(TRUE, "array", <<Fridge, Lamp>>),
     FileOf(TRUE, "array", <<Fridge, NegativePower>>),
     FileOf(TRUE, "array", <<NegativeEmissions>>),
     FileOf(TRUE, "array", <<BadUsageMode, Lamp>>),
     FileOf(TRUE, "array", <<EmptyName>>),
     FileOf(TRUE, "array", <<Lamp, BlankName>>)}

\* Bun.file(path).text(): the file's text, or a rejection.
FileText(f) ==
    IF f.readable
    THEN Fulfilled([t |-> "text", json |-> f.json, entries |-> f.entries])
    ELSE Rejected(Error("ENOENT"))

\* ------------------------------------------------------ ApplianceLoader

UsageModes == {"ALWAYS_ON", "ON_DEMAND"}

\* A schema without the lower bound on powerConsumption.
ApplianceSchemaNoMin(e) ==
    /\ Len(Trim(e.name)) >= 1
    /\ e.embodiedEmissions >= 0
    /\ e.usageMode \in UsageModes

\* ApplianceSchema.safeParse(entry).success
ApplianceSchemaOk(e) ==
    /\ Len(Trim(e.name)) >= 1
    /\ e.powerConsumption >= 0
    /\ e.embodiedEmissions >= 0
    /\ e.usageMode \in UsageModes

\* AppliancesSchema.safeParse(jsonData).success
AppliancesSchemaOk(json) ==
    /\ json.json = "array"
    /\ \A i \in 1..Len(json.entries) : ApplianceSchemaOk(json.entries[i])

\* new Appliance(...) from a validated record (zod has trimmed the name).
Appliance(e) ==
    [name |-> Trim(e.name), powerConsumption |-> e.powerConsumption,
     embodiedEmissions |-> e.embodiedEmissions, usageMode |-> e.usageMode,
     parameters |-> IF e.hasParameters THEN e.parameters ELSE {}]

\* JSON.parse(x) succeeds: x is a text that is JSON.
JSONParses(x) == x.t = "text" /\ x.json # "invalid"

\* async loadAppliancesFromFile: the returned promise, settled.
loadAppliancesFromFile(f) ==
    LET wrapped == tryCatch(FileText(f)) IN
    IF wrapped.state = "rejected" THEN wrapped
    ELSE LET fileResult == wrapped.value IN
         IF Truthy(Get(fileResult, "error"))
         THEN Rejected(Error("Error reading file"))
         ELSE LET text == Get(fileResult, "data") IN
              IF ~JSONParses(text) THEN Rejected(Error("SyntaxError"))
              ELSE IF ~AppliancesSchemaOk(text)
                   THEN Rejected(Error("Zod validation error"))
                   ELSE Fulfilled([t |-> "array",
                                   items |-> [i \in 1..Len(text.entries) |->
                                                Appliance(text.entries[i])]])

\* ------------------------------------------------------------ domain model

\* Number.NaN; every other number of the model is greater.
NaN == -1000000

TimeWindow(start, end) == [start |-> start, end |-> end]

Household(region, timeWindow, appliances) ==
    [region |-> region, timeWindow |-> timeWindow, appliances |-> appliances]

Scenario(name, household) == [name |-> name, household |-> household]

CO2Contribution(appliance, value) == [appliance |-> appliance, value |-> value]

\* get appliances(): Array.from(this._appliances), a copy with the same elements.
HouseholdAppliances(household) ==
    [i \in 1..Len(household.appliances) |-> household.appliances[i]]

\* Math.random() in tenths: 0.0, 0.4, 0.5, 0.9.
Draws == {0, 4, 5, 9}

\* Math.round of a number given in tenths: floor(x + 0.5).
MathRound(tenths) == (tenths + 5) \div 10

\* An evaluation that scales the draw without rounding it first.
evaluateUnrounded(scenario, draws) ==
    LET appliances == HouseholdAppliances(scenario.household) IN
    [i \in 1..Len(appliances) |-> CO2Contribution(appliances[i], draws[i] * 10)]

\* Scenario.evaluate, draws[i] being the i-th Math.random().
evaluate(scenario, draws) ==
    LET appliances == HouseholdAppliances(scenario.household) IN
    [i \in 1..Len(appliances) |->
        CO2Contribution(appliances[i], MathRound(draws[i]) * 100)]

\* ------------------------------------------------------------ console lines

Line(kind) == [kind |-> kind]

AvailableCommands == Line("Available commands")

UnknownCommand == Line("Unknown command. Available commands")

Goodbye == Line("Goodbye!")

NotFound(name) == [kind |-> "not found", name |-> name]

\* The i-th answer prompt() gives; past the end of the input it gives null.
Answer(a, i) == IF i <= Len(a) THEN a[i] ELSE ""

\* App.listAppliances: the lines written.
listAppliances(catalog) ==
    IF Len(catalog) = 0
    THEN <<Line("No possible appliances found or error reading file")>>
    ELSE <<Line("Possible appliances:")>> \o
         [i \in 1..Len(catalog) |->
            [kind |-> "appliance", index |-> i, appliance |-> catalog[i]]]

\* App.listScenarios: the lines written.
listScenarios(list) ==
    IF Len(list) = 0
    THEN <<Line("No scenarios found or error reading file")>>
    ELSE <<Line("Scenarios:")>> \o
         [i \in 1..Len(list) |->
            [kind |-> "scenario", index |-> i, scenario |-> list[i]]]

\* `scenario-${n}`
ScenarioName(n) == "scenario-" \o ToString(n)

\* Naming by the current count instead of the count plus one.
createScenarioOffByOne(list, now1, now2) ==
    Append(list, Scenario(ScenarioName(Len(list)),
                          Household("ASIA", TimeWindow(now1, now2), <<>>)))

\* App.createScenario: the new scenario list.
createScenario(list, now1, now2) ==
    Append(list, Scenario(ScenarioName(Len(list) + 1),
                          Household("ASIA", TimeWindow(now1, now2), <<>>)))

\* Array.prototype.findLastIndex in place of findIndex.
findIndexLast(list, name) ==
    IF \E i \in 1..Len(list) : list[i].name = name
    THEN CHOOSE i \in 1..Len(list) :
            /\ list[i].name = name
            /\ \A j \in (i + 1)..Len(list) : list[j].name # name
    ELSE 0

RECURSIVE findFrom(_, _, _)
findFrom(list, name, i) ==
    IF i > Len(list) THEN 0
    ELSE IF list[i].name = name THEN i ELSE findFrom(list, name, i + 1)

\* findIndex / find by name: the 1-based index of the first match, 0 for none.
findIndex(list, name) == findFrom(list, name, 1)

\* ---------------------------------------------------- editScenario's prompts

getRegion(regionInput) ==
    IF regionInput = "" THEN "Not Specified"
    ELSE IF regionInput = "1" THEN "US"
    ELSE IF regionInput = "2" THEN "EU"
    ELSE IF regionInput = "3" THEN "ASIA"
    ELSE "Not Specified"

\* new Date(`${date}T${time}`).getTime(), in minutes; NaN when invalid.
ParseDateTime(date, time) ==
    LET day == CASE date = "2024-01-01" -> 1
                 [] date = "2024-03-15" -> 75
                 [] date = "2024-06-30" -> 182
                 [] OTHER -> NaN
        minute == CASE time = "00:00" -> 0
                    [] time = "10:00" -> 600
                    [] time = "12:00" -> 720
                    [] time = "23:59" -> 1439
                    [] OTHER -> NaN
    IN IF day = NaN \/ minute = NaN THEN NaN ELSE day * 1440 + minute

\* A getTimeWindow that builds the window without checking the parsed dates.
getTimeWindowUnchecked(a) ==
    LET setting == <<Line("Setting time window...")>>
        None(n, out) == [timeWindow |-> Undefined, console |-> out, consumed |-> n]
    IN IF Answer(a, 1) = "" THEN None(1, setting)
       ELSE IF Answer(a, 2) = "" THEN None(2, setting)
       ELSE IF Answer(a, 3) = "" THEN None(3, setting)
       ELSE IF Answer(a, 4) = "" THEN None(4, setting)
       ELSE [timeWindow |-> TimeWindow(ParseDateTime(a[1], a[2]),
                                       ParseDateTime(a[3], a[4])),
             console |-> setting, consumed |-> 4]

\* getTimeWindow: a holds the answers to its four prompts.
getTimeWindow(a) ==
    LET setting == <<Line("Setting time window...")>>
        None(n, out) == [timeWindow |-> Undefined, console |-> out, consumed |-> n]
        startDateInput == Answer(a, 1)
        startTimeInput == Answer(a, 2)
        endDateInput == Answer(a, 3)
        endTimeInput == Answer(a, 4)
    IN IF startDateInput = "" THEN None(1, setting)
       ELSE IF startTimeInput = "" THEN None(2, setting)
       ELSE IF endDateInput = "" THEN None(3, setting)
       ELSE IF endTimeInput = "" THEN None(4, setting)
       ELSE LET startDate == ParseDateTime(startDateInput, startTimeInput)
                endDate == ParseDateTime(endDateInput, endTimeInput)
            IN IF startDate = NaN \/ endDate = NaN
               THEN None(4, setting \o <<Line("Invalid date or time format.")>>)
               ELSE [timeWindow |-> TimeWindow(startDate, endDate),
                     console |-> setting, consumed |-> 4]

getScenarioName(scenario, newName) ==
    IF newName = "" THEN scenario.name ELSE newName

\* String.prototype.toLowerCase on the answers the model enters.
ToLowerStr(s) ==
    CASE s = "DONE" -> "done"
      [] s = "Done" -> "done"
      [] OTHER -> s

\* parseInt: leading digits, NaN when there are none.
ParseInt(s) ==
    CASE s = "0" -> 0
      [] s = "1" -> 1
      [] s = "2" -> 2
      [] s = "2nd" -> 2
      [] s = "3" -> 3
      [] OTHER -> NaN

RECURSIVE getAppliancesLoop(_, _, _, _, _)
getAppliancesLoop(possible, a, i, selectedAppliances, out) ==
    LET applianceIndexInput == Answer(a, i) IN
    IF applianceIndexInput = "" \/ ToLowerStr(applianceIndexInput) = "done"
    THEN [appliances |-> selectedAppliances, console |-> out, consumed |-> i]
    ELSE LET parsed == ParseInt(applianceIndexInput)
             applianceIndex == IF parsed = NaN THEN NaN ELSE parsed - 1
         IN IF applianceIndex = NaN \/ applianceIndex < 0
               \/ applianceIndex >= Len(possible)
            THEN getAppliancesLoop(possible, a, i + 1, selectedAppliances,
                    Append(out, Line("Invalid appliance number. Please try again.")))
            ELSE getAppliancesLoop(possible, a, i + 1,
                    Append(selectedAppliances, possible[applianceIndex + 1]),
                    Append(out, [kind |-> "added",
                                 appliance |-> possible[applianceIndex + 1]]))

\* getAppliances: a holds the answers to its prompts.
getAppliances(possible, a) == getAppliancesLoop(possible, a, 1, <<>>, <<>>)

\* What a handler leaves behind: the scenario list, the lines written, the
\* index its lookup found, and the number of prompts it asked.
Outcome(list, out, found, asked) ==
    [scenarios |-> list, console |-> out, selected |-> found, consumed |-> asked]

\* An edit that overwrites the original instead of appending a duplicate.
editScenarioInPlace(list, catalog, a) ==
    LET listing == listScenarios(list)
        scenarioIndex == findIndex(list, Answer(a, 1))
        tw == getTimeWindow(SubSeq(a, 3, Len(a)))
        picks == getAppliances(catalog, SubSeq(a, 8, Len(a)))
    IN IF Len(list) = 0 THEN Outcome(list, listing, 0, 0)
       ELSE IF Answer(a, 1) = "" THEN Outcome(list, listing, 0, 1)
       ELSE IF scenarioIndex = 0
            THEN Outcome(list, listing \o <<NotFound(Answer(a, 1))>>, 0, 1)
       ELSE IF tw.timeWindow = Undefined
            THEN Outcome(list, listing \o tw.console, scenarioIndex, 2 + tw.consumed)
       ELSE IF Len(catalog) = 0
            THEN Outcome(list, listing \o tw.console, scenarioIndex, 7)
       ELSE LET name == getScenarioName(list[scenarioIndex], Answer(a, 2))
                edited == Scenario(name,
                            Household(getRegion(Answer(a, 7)), tw.timeWindow,
                                      picks.appliances))
            IN Outcome([list EXCEPT ![scenarioIndex] = edited],
                       listing \o tw.console \o picks.console \o
                         <<[kind |-> "duplicated", name |-> name,
                            original |-> list[scenarioIndex].name]>>,
                       scenarioIndex, 7 + picks.consumed)

\* App.editScenario: a holds the answers to its prompts, in the order asked.
editScenario(list, catalog, a) ==
    LET listing == listScenarios(list) IN
    IF Len(list) = 0 THEN Outcome(list, listing, 0, 0)
    ELSE
    LET input == Answer(a, 1) IN
    IF input = "" THEN Outcome(list, listing, 0, 1)
    ELSE
    LET scenarioIndex == findIndex(list, input) IN
    IF scenarioIndex = 0
    THEN Outcome(list, listing \o <<NotFound(input)>>, 0, 1)
    ELSE
    LET originalScenario == list[scenarioIndex]
        name == getScenarioName(originalScenario, Answer(a, 2))
        tw == getTimeWindow(SubSeq(a, 3, Len(a)))
    IN
    IF tw.timeWindow = Undefined
    THEN Outcome(list, listing \o tw.console, scenarioIndex, 2 + tw.consumed)
    ELSE
    LET region == getRegion(Answer(a, 7))
        afterRegion == listing \o tw.console \o <<Line("Select a region:")>>
                         \o listAppliances(catalog)
    IN
    IF Len(catalog) = 0
    THEN Outcome(list, afterRegion \o <<Line("No appliances available to add.")>>,
                 scenarioIndex, 7)
    ELSE
    LET picks == getAppliances(catalog, SubSeq(a, 8, Len(a)))
        household == Household(region, tw.timeWindow, picks.appliances)
        editedScenario == Scenario(name, household)
    IN Outcome(Append(list, editedScenario),
               afterRegion \o <<Line("Add appliances to the scenario")>>
                 \o picks.console
                 \o <<[kind |-> "duplicated", name |-> name,
                       original |-> originalScenario.name]>>,
               scenarioIndex, 7 + picks.consumed)

\* s => s.name !== name, applied by Array.prototype.filter.
FilterOutName(list, name) ==
    LET Keep(s) == s.name # name IN SelectSeq(list, Keep)

\* A deleteScenario that stores the filtered list back into this._scenarios.
deleteScenarioStored(list, a) ==
    LET listing == listScenarios(list)
        found == findIndex(list, Answer(a, 1))
    IN IF Len(list) = 0 THEN Outcome(list, listing, 0, 0)
       ELSE IF Answer(a, 1) = "" THEN Outcome(list, listing, 0, 1)
       ELSE IF found = 0
            THEN Outcome(list, listing \o <<NotFound(Answer(a, 1))>>, 0, 1)
       ELSE Outcome(FilterOutName(list, list[found].name),
                    listing \o <<[kind |-> "deleted", name |-> list[found].name,
                                  returned |-> FilterOutName(list, list[found].name)]>>,
                    found, 1)

\* App.deleteScenario: the filtered list is returned, and the caller
\* (`command()` in run) drops what a handler returns; this._scenarios is
\* never assigned.
deleteScenario(list, a) ==
    LET listing == listScenarios(list) IN
    IF Len(list) = 0 THEN Outcome(list, listing, 0, 0)
    ELSE
    LET input == Answer(a, 1) IN
    IF input = "" THEN Outcome(list, listing, 0, 1)
    ELSE
    LET found == findIndex(list, input) IN
    IF found = 0 THEN Outcome(list, listing \o <<NotFound(input)>>, 0, 1)
    ELSE
    LET scenario == list[found]
        newScenarios == FilterOutName(list, scenario.name)
    IN Outcome(list,
               listing \o <<[kind |-> "deleted", name |-> scenario.name,
                             returned |-> newScenarios]>>,
               found, 1)

\* The number of Math.random() calls showScenarioReport makes.
showScenarioReportDraws(list, a) ==
    LET found == findIndex(list, Answer(a, 1)) IN
    IF Len(list) = 0 \/ Answer(a, 1) = "" \/ found = 0 THEN 0
    ELSE Len(HouseholdAppliances(list[found].household))

\* App.showScenarioReport
showScenarioReport(list, a, draws) ==
    LET listing == listScenarios(list) IN
    IF Len(list) = 0 THEN Outcome(list, listing, 0, 0)
    ELSE
    LET input == Answer(a, 1) IN
    IF input = "" THEN Outcome(list, listing, 0, 1)
    ELSE
    LET found == findIndex(list, input) IN
    IF found = 0 THEN Outcome(list, listing \o <<NotFound(input)>>, 0, 1)
    ELSE Outcome(list,
                 listing \o <<[kind |-> "report",
                               contributions |-> evaluate(list[found], draws)]>>,
                 found, 1)

\* ------------------------------------------------------------------- main

\* main: load the catalog; on failure report it and return; otherwise
\* construct the App and start run(), which writes the command list.  The
\* first branch is main's own await throwing, the last stores main's
\* `appliances` (an array whenever the load succeeded).
Main ==
    /\ pc = "start"
    /\ LET outcome == tryCatch(loadAppliancesFromFile(file)) IN
       IF outcome.state = "rejected"
       THEN /\ pc' = "exited"
            /\ console' = <<[kind |-> "uncaught", error |-> outcome.reason]>>
            /\ UNCHANGED possibleAppliances
       ELSE LET appliances == Get(outcome.value, "data")
                error == Get(outcome.value, "error")
            IN IF Truthy(error)
               THEN /\ pc' = "exited"
                    /\ console' = <<[kind |-> "error", error |-> error]>>
                    /\ UNCHANGED possibleAppliances
               ELSE /\ pc' = "awaiting"
                    /\ possibleAppliances' =
                         IF appliances.t = "array" THEN appliances.items ELSE <<>>
                    /\ console' = <<AvailableCommands>>
    /\ UNCHANGED <<file, scenarios, selected, stdin, created, tcPromise, tcResult>>

NoInput == [command |-> <<>>, answers |-> <<>>]

\* ------------------------------------------------------- what the user types

CommandLines ==
    {<<>>, <<" ">>, <<"Help">>, <<"exit", " ", "now">>,
     <<"exit">>, <<" ", "EXIT", " ">>,
     <<"list_appliances">>, <<"List_Scenarios">>,
     <<"Create_Scenario", " ">>, <<"edit_scenario">>,
     <<"DELETE_SCENARIO">>, <<" ", "show_scenario_report">>}

NameAnswers == {"", "scenario-1", "den", "ghost"}

NewNameAnswers == {"", "den"}

RegionAnswers == {"", "1", "2", "3", "4"}

\* Answers to the four time prompts; nothing is asked after an empty answer.
TimeWindowStreams ==
    LET full == {<<sd, st, ed, et>> :
                    sd \in {"", "2024-01-01", "tomorrow"}, st \in {"", "10:00"},
                    ed \in {"", "2024-06-30"}, et \in {"", "23:59", "25:61"}}
        prefixes == {SubSeq(s, 1, n) : s \in full, n \in 1..4}
    IN {s \in prefixes : \A i \in 1..(Len(s) - 1) : s[i] # ""}

\* Answers to the appliance prompt, up to the answer that ends the selection.
PickStreams ==
    {<<"done">>, <<"2", "1", "done">>, <<"0", "1", "DONE">>,
     <<"abc", "3", "2nd", "">>, <<"1", "1", "">>}

\* The answers one edit_scenario may read.
EditStreams ==
    LET named == {<<t, n>> \o tw :
                    t \in NameAnswers, n \in NewNameAnswers, tw \in TimeWindowStreams}
        timed == {s \in named : Len(s) = 6 /\ s[6] # ""}
        regioned == {s \o <<r>> : s \in timed, r \in RegionAnswers}
    IN {<<>>} \cup {<<t>> : t \in NameAnswers} \cup named \cup regioned
       \cup {s \o p : s \in regioned, p \in PickStreams}

\* The answers one delete_scenario or show_scenario_report may read.
LookupStreams == {<<>>} \cup {<<t>> : t \in NameAnswers}

\* new Date(): the clock reading.
Clock == {ParseDateTime("2024-03-15", "12:00")}

\* ---------------------------------------------------------------- App.run

Commands ==
    {"list_appliances", "list_scenarios", "create_scenario", "edit_scenario",
     "delete_scenario", "show_scenario_report"}

formattedInput(input) == ToLowerCase(Trim(input))

\* A dispatch that matches the input as typed.
DispatchRaw(input) ==
    IF input = <<>> THEN "continue"
    ELSE IF Len(input) = 1 /\ input[1] \in Commands THEN input[1]
    ELSE IF input = <<"exit">> THEN "exit"
    ELSE "unknown"

\* One turn of the while loop: what the input selects.
Dispatch(input) ==
    IF input = <<>> THEN "continue"
    ELSE LET formatted == formattedInput(input) IN
         IF Len(formatted) = 1 /\ formatted[1] \in Commands THEN formatted[1]
         ELSE IF formatted = <<"exit">> THEN "exit"
         ELSE "unknown"

\* The loop continues after a handler that left outcome r.
Continue(input, a, r) ==
    /\ r.consumed = Len(a)
    /\ pc' = "awaiting"
    /\ stdin' = [command |-> input, answers |-> a]
    /\ scenarios' = r.scenarios
    /\ console' = r.console
    /\ selected' = r.selected
    /\ UNCHANGED <<file, possibleAppliances, tcPromise, tcResult>>

Blank ==
    /\ pc = "awaiting"
    /\ \E input \in CommandLines :
        /\ Dispatch(input) = "continue"
        /\ Continue(input, <<>>, Outcome(scenarios, <<>>, 0, 0))
    /\ UNCHANGED created

Unknown ==
    /\ pc = "awaiting"
    /\ \E input \in CommandLines :
        /\ Dispatch(input) = "unknown"
        /\ Continue(input, <<>>, Outcome(scenarios, <<UnknownCommand>>, 0, 0))
    /\ UNCHANGED created

Exit ==
    /\ pc = "awaiting"
    /\ \E input \in CommandLines :
        /\ Dispatch(input) = "exit"
        /\ stdin' = [command |-> input, answers |-> <<>>]
    /\ pc' = "done"
    /\ console' = <<Goodbye>>
    /\ selected' = 0
    /\ UNCHANGED <<file, possibleAppliances, scenarios, created, tcPromise, tcResult>>

ListAppliances ==
    /\ pc = "awaiting"
    /\ \E input \in CommandLines :
        /\ Dispatch(input) = "list_appliances"
        /\ Continue(input, <<>>,
                    Outcome(scenarios, listAppliances(possibleAppliances), 0, 0))
    /\ UNCHANGED created

ListScenarios ==
    /\ pc = "awaiting"
    /\ \E input \in CommandLines :
        /\ Dispatch(input) = "list_scenarios"
        /\ Continue(input, <<>>, Outcome(scenarios, listScenarios(scenarios), 0, 0))
    /\ UNCHANGED created

CreateScenario ==
    /\ pc = "awaiting"
    /\ Len(scenarios) < MaxScenarios
    /\ \E input \in CommandLines, now1 \in Clock, now2 \in Clock :
        /\ Dispatch(input) = "create_scenario"
        /\ Continue(input, <<>>,
                    Outcome(createScenario(scenarios, now1, now2),
                            <<Line("Scenario created.")>>, 0, 0))
    /\ created' = created + 1

EditScenario ==
    /\ pc = "awaiting"
    /\ Len(scenarios) < MaxScenarios
    /\ \E input \in CommandLines, a \in EditStreams :
        /\ Dispatch(input) = "edit_scenario"
        /\ Continue(input, a, editScenario(scenarios, possibleAppliances, a))
    /\ UNCHANGED created

DeleteScenario ==
    /\ pc = "awaiting"
    /\ \E input \in CommandLines, a \in LookupStreams :
        /\ Dispatch(input) = "delete_scenario"
        /\ Continue(input, a, deleteScenario(scenarios, a))
    /\ UNCHANGED created

ShowScenarioReport ==
    /\ pc = "awaiting"
    /\ \E input \in CommandLines, a \in LookupStreams :
        /\ Dispatch(input) = "show_scenario_report"
        /\ \E draws \in [1..showScenarioReportDraws(scenarios, a) -> Draws] :
            Continue(input, a, showScenarioReport(scenarios, a, draws))
    /\ UNCHANGED created

\* ------------------------------------------------- tryCatch on its own

JSValues ==
    {Undefined, Null, Bool(FALSE), Bool(TRUE), Num(0), Num(7), Num(NaN),
     Str(""), Str("text"), Error("boom"), [t |-> "array", items |-> <<>>]}

\* What a wrapped operation may settle with: a plain value, or a Result.
Settlements ==
    JSValues \cup {[data |-> v] : v \in JSValues} \cup {[error |-> v] : v \in JSValues}

Promises == {Fulfilled(v) : v \in Settlements} \cup {Rejected(v) : v \in Settlements}

Pending == [state |-> "pending"]

TryCatchCall ==
    /\ tcResult = Pending
    /\ tcResult' = tryCatch(tcPromise)
    /\ UNCHANGED <<pc, file, possibleAppliances, scenarios, selected, stdin,
                   console, created, tcPromise>>

Init ==
    /\ pc = "start"
    /\ file \in Files
    /\ possibleAppliances = <<>>
    /\ scenarios = <<>>
    /\ selected = 0
    /\ stdin = NoInput
    /\ console = <<>>
    /\ created = 0
    /\ tcPromise = Fulfilled(Undefined)
    /\ tcResult = Fulfilled(Undefined)

Next ==
    \/ Main
    \/ Blank
    \/ Unknown
    \/ Exit
    \/ ListAppliances
    \/ ListScenarios
    \/ CreateScenario
    \/ EditScenario
    \/ DeleteScenario
    \/ ShowScenarioReport

Spec == Init /\ [][Next]_vars

InitTryCatch ==
    /\ pc = "start"
    /\ file = FileOf(TRUE, "array", <<>>)
    /\ possibleAppliances = <<>>
    /\ scenarios = <<>>
    /\ selected = 0
    /\ stdin = NoInput
    /\ console = <<>>
    /\ created = 0
    /\ tcPromise \in Promises
    /\ tcResult = Pending

NextTryCatch == TryCatchCall

SpecTryCatch == InitTryCatch /\ [][NextTryCatch]_vars
\* ==================================================================
\* The claims
\* ==================================================================

\* The command the last loop iteration read, after trimming and lower-casing.
Typed(c) == stdin.command # <<>> /\ formattedInput(stdin.command) = <<c>>

\* Some scenario of the list carries the name.
HasName(list, name) == \E i \in 1..Len(list) : list[i].name = name

LastLine == console[Len(console)]

\* ------------------------------------------------------------------ C1
\* C1: after delete_scenario is given the name of an existing scenario, no
\* scenario with that name is left in the controller's list, and the
\* scenarios with other names remain, in their original order.
DeleteRemovesNamed ==
    [][(/\ pc = "awaiting"
        /\ Typed("delete_scenario")'
        /\ Len(stdin'.answers) = 1
        /\ HasName(scenarios, stdin'.answers[1]))
       => /\ ~HasName(scenarios', stdin'.answers[1])
          /\ scenarios' = FilterOutName(scenarios, stdin'.answers[1])]_vars

\* ------------------------------------------------------------------ C2
\* C2: when every scenario of the list came from a create_scenario command
\* (N commands, N scenarios), the names are scenario-1 .. scenario-N in list
\* order, each with region ASIA and no appliances.
CreateNamesInOrder ==
    (pc \in {"awaiting", "done"} /\ created = Len(scenarios))
    => \A i \in 1..Len(scenarios) :
          /\ scenarios[i].name = "scenario-" \o ToString(i)
          /\ scenarios[i].household.region = "ASIA"
          /\ scenarios[i].household.appliances = <<>>

CreatedTwice ==
    /\ created = 2
    /\ Len(scenarios) = 2
    /\ scenarios[2].name = "scenario-2"

\* ------------------------------------------------------------------ C3
\* The appliances a selection picks: the catalog entries at the valid
\* numbers entered before the answer that ends the selection, in that order.
Picked(catalog, answers) ==
    LET before == SubSeq(answers, 1, Len(answers) - 1)
        Valid(x) == ParseInt(x) # NaN /\ ParseInt(x) >= 1 /\ ParseInt(x) <= Len(catalog)
        numbers == SelectSeq(before, Valid)
    IN [i \in 1..Len(numbers) |-> catalog[ParseInt(numbers[i])]]

RegionChosen(x) ==
    CASE x = "1" -> "US"
      [] x = "2" -> "EU"
      [] x = "3" -> "ASIA"
      [] OTHER -> "Not Specified"

\* The step is an edit_scenario whose target was found, whose time window
\* parsed and whose appliance selection was finished.
EditSucceeds ==
    /\ pc = "awaiting"
    /\ Typed("edit_scenario")'
    /\ Len(stdin'.answers) >= 8
    /\ HasName(scenarios, stdin'.answers[1])
    /\ \A k \in 3..6 : stdin'.answers[k] # ""
    /\ ParseDateTime(stdin'.answers[3], stdin'.answers[4]) # NaN
    /\ ParseDateTime(stdin'.answers[5], stdin'.answers[6]) # NaN

\* C3: a successful edit_scenario appends exactly one scenario at the end of
\* the list, with the entered name (the target's when none is entered), the
\* chosen region, the entered time window and the picked appliances in the
\* order picked; every scenario already in the list stays as it was.
EditAppendsDuplicate ==
    [][EditSucceeds =>
        LET a == stdin'.answers
            new == scenarios'[Len(scenarios')]
        IN /\ Len(scenarios') = Len(scenarios) + 1
           /\ \A i \in 1..Len(scenarios) : scenarios'[i] = scenarios[i]
           /\ new.name = (IF a[2] = "" THEN a[1] ELSE a[2])
           /\ new.household.region = RegionChosen(a[7])
           /\ new.household.timeWindow.start = ParseDateTime(a[3], a[4])
           /\ new.household.timeWindow.end = ParseDateTime(a[5], a[6])
           /\ new.household.appliances =
                Picked(possibleAppliances, SubSeq(a, 8, Len(a)))]_vars

EditedWithTwoPicks ==
    /\ pc = "awaiting"
    /\ Typed("edit_scenario")
    /\ Len(scenarios) = 2
    /\ Len(console) > 0
    /\ LastLine.kind = "duplicated"
    /\ scenarios[1].household.appliances = <<>>
    /\ Len(scenarios[2].household.appliances) = 2
    /\ scenarios[2].household.appliances[1] # scenarios[2].household.appliances[2]
    /\ scenarios[2].household.appliances[1] = possibleAppliances[2]

\* ------------------------------------------------------------------ C4
\* The step is an edit_scenario that aborts: the target name matches no
\* scenario, or one of the four time answers is empty, or a date does not
\* parse.
EditAborts ==
    /\ pc = "awaiting"
    /\ Typed("edit_scenario")'
    /\ Len(stdin'.answers) >= 1
    /\ stdin'.answers[1] # ""
    /\ \/ ~HasName(scenarios, stdin'.answers[1])
       \/ \E k \in 3..6 : k <= Len(stdin'.answers) /\ stdin'.answers[k] = ""
       \/ /\ Len(stdin'.answers) >= 6
          /\ \/ ParseDateTime(stdin'.answers[3], stdin'.answers[4]) = NaN
             \/ ParseDateTime(stdin'.answers[5], stdin'.answers[6]) = NaN

\* C4: an edit_scenario that aborts leaves the scenario list and the catalog
\* as they were, and the loop awaits the next command.
EditAbortKeepsState ==
    [][EditAborts =>
        /\ scenarios' = scenarios
        /\ possibleAppliances' = possibleAppliances
        /\ pc' = "awaiting"]_vars

EditAbortedOnBadDate ==
    /\ pc = "awaiting"
    /\ Typed("edit_scenario")
    /\ Len(stdin.answers) = 6
    /\ stdin.answers[6] = "25:61"
    /\ Len(scenarios) >= 1
    /\ Len(console) > 0
    /\ LastLine.kind = "Invalid date or time format."

\* ------------------------------------------------------------------ C5
\* C5: the report of a scenario whose household has k appliances holds k
\* contributions, the i-th for the i-th appliance, each of value 0 or 100,
\* whatever the draws; the scenario list is left as it was.
EvaluateContributions ==
    [][(/\ pc = "awaiting"
        /\ Typed("show_scenario_report")'
        /\ Len(stdin'.answers) = 1
        /\ HasName(scenarios, stdin'.answers[1]))
       => LET report == console'[Len(console')]
              household == scenarios[selected'].household
          IN /\ selected' \in 1..Len(scenarios)
             /\ report.kind = "report"
             /\ Len(report.contributions) = Len(household.appliances)
             /\ \A i \in 1..Len(household.appliances) :
                   /\ report.contributions[i].appliance = household.appliances[i]
                   /\ report.contributions[i].value \in {0, 100}
             /\ scenarios' = scenarios]_vars

ReportedZeroAndHundred ==
    /\ pc = "awaiting"
    /\ Typed("show_scenario_report")
    /\ Len(console) > 0
    /\ LastLine.kind = "report"
    /\ Len(LastLine.contributions) = 2
    /\ LastLine.contributions[1].value = 0
    /\ LastLine.contributions[2].value = 100
    /\ LastLine.contributions[1].appliance # LastLine.contributions[2].appliance

\* ------------------------------------------------------------------ C6
\* C6: tryCatch returns (its promise is never rejected) an object with
\* exactly one of the keys data and error: data, holding the value, when
\* the wrapped operation succeeded; error, holding the failure, when it
\* failed.  The two kinds of result are told apart by the key they hold.
TryCatchOneOutcome ==
    tcResult # Pending =>
        /\ tcResult.state = "fulfilled"
        /\ tcPromise.state = "fulfilled" =>
              /\ DOMAIN tcResult.value = {"data"}
              /\ tcResult.value.data = tcPromise.value
        /\ tcPromise.state = "rejected" =>
              /\ DOMAIN tcResult.value = {"error"}
              /\ tcResult.value.error = tcPromise.reason

FailedWithUndefined ==
    /\ tcPromise = Rejected(Undefined)
    /\ tcResult = Fulfilled([error |-> Undefined])

\* ------------------------------------------------------------------ C7
\* The file can be read, is a JSON array, and every entry has a name with a
\* non-blank character, non-negative numbers and a known usage mode.
CatalogIsValid(f) ==
    /\ f.readable
    /\ f.json = "array"
    /\ \A i \in 1..Len(f.entries) :
          /\ \E k \in 1..Len(f.entries[i].name) : f.entries[i].name[k] # " "
          /\ f.entries[i].powerConsumption >= 0
          /\ f.entries[i].embodiedEmissions >= 0
          /\ f.entries[i].usageMode \in {"ALWAYS_ON", "ON_DEMAND"}

\* C7: when the catalog cannot be loaded, main reports the failure and ends
\* with no catalog, no controller and no command ever read; the loop is
\* entered only after a load that succeeded.
LoadFailureIsFatal ==
    /\ (~CatalogIsValid(file) /\ pc # "start") =>
          /\ pc = "exited"
          /\ possibleAppliances = <<>>
          /\ scenarios = <<>>
          /\ stdin = NoInput
          /\ Len(console) = 1
          /\ console[1].kind = "error"
    /\ pc \in {"awaiting", "done"} => CatalogIsValid(file)
    /\ pc = "exited" => ~CatalogIsValid(file)

SchemaFailureExited ==
    /\ pc = "exited"
    /\ file.readable
    /\ file.json = "array"
    /\ \E i \in 1..Len(file.entries) : file.entries[i].powerConsumption < 0

\* ------------------------------------------------------------------ C8
KnownWords == Commands \cup {"exit"}

\* The input selects neither a command nor exit.
Unrecognized(input) ==
    LET formatted == formattedInput(input) IN
    ~(Len(formatted) = 1 /\ formatted[1] \in KnownWords)

LoopFrame ==
    /\ scenarios' = scenarios
    /\ possibleAppliances' = possibleAppliances
    /\ pc' = "awaiting"

\* C8 as stated: blank input, white space included, is ignored without output.
BlankInputSilent ==
    [][(pc = "awaiting" /\ Trim(stdin'.command) = <<>>)
       => (console' = <<>> /\ LoopFrame)]_vars

\* C8, amended: empty input is ignored without output; input that is
\* unrecognized after trimming and lower-casing, white space alone included,
\* only re-prints the command list; both leave the scenario list and the
\* catalog alone and the loop awaiting; exit, trimmed and lower-cased, prints
\* Goodbye! and ends the loop, after which nothing changes any more.
LoopInputHandling ==
    [][/\ (pc = "awaiting" /\ stdin'.command = <<>>)
          => (console' = <<>> /\ LoopFrame)
       /\ (pc = "awaiting" /\ stdin'.command # <<>> /\ Unrecognized(stdin'.command))
          => (console' = <<UnknownCommand>> /\ LoopFrame)
       /\ (pc = "awaiting" /\ Typed("exit")')
          => /\ console' = <<Goodbye>>
             /\ pc' = "done"
             /\ scenarios' = scenarios
             /\ possibleAppliances' = possibleAppliances
       /\ pc = "done" => UNCHANGED vars]_vars

ExitedByPaddedUpperCase ==
    /\ pc = "done"
    /\ stdin.command = <<" ", "EXIT", " ">>
    /\ console = <<Goodbye>>

\* ------------------------------------------------------------------ C9
\* C9: in the command loop the scenario list only grows: by at most one
\* scenario per command, only on create_scenario or edit_scenario, with
\* every scenario already listed keeping its index, name and household;
\* delete_scenario removes nothing; the catalog never changes.
ScenarioListAppendOnly ==
    [][pc = "awaiting" =>
        /\ Len(scenarios') >= Len(scenarios)
        /\ Len(scenarios') <= Len(scenarios) + 1
        /\ Len(scenarios') = Len(scenarios) + 1
              => (Typed("create_scenario")' \/ Typed("edit_scenario")')
        /\ \A i \in 1..Len(scenarios) : scenarios'[i] = scenarios[i]
        /\ possibleAppliances' = possibleAppliances]_vars

DeletedYetListed ==
    /\ pc = "awaiting"
    /\ Typed("delete_scenario")
    /\ Len(console) > 0
    /\ LastLine.kind = "deleted"
    /\ LastLine.returned = <<>>
    /\ HasName(scenarios, LastLine.name)

\* ----------------------------------------------------------------- C10
\* C10: a lookup by name in edit_scenario, delete_scenario and
\* show_scenario_report resolves to the earliest scenario with that name: a
\* later scenario with the name of an earlier one is never selected, and the
\* report shown is that of the earliest one's household.
FirstMatchSelected ==
    [][(/\ pc = "awaiting"
        /\ Typed("edit_scenario")' \/ Typed("delete_scenario")'
             \/ Typed("show_scenario_report")'
        /\ Len(stdin'.answers) >= 1
        /\ stdin'.answers[1] # "")
       => LET name == stdin'.answers[1] IN
          /\ HasName(scenarios, name) =>
                /\ selected' \in 1..Len(scenarios)
                /\ scenarios[selected'].name = name
                /\ \A j \in 1..(selected' - 1) : scenarios[j].name # name
          /\ ~HasName(scenarios, name) => selected' = 0
          /\ \A i, j \in 1..Len(scenarios) :
                (i < j /\ scenarios[i].name = scenarios[j].name) => selected' # j
          /\ (Typed("show_scenario_report")' /\ HasName(scenarios, name)) =>
                \E i \in 1..Len(scenarios) :
                   /\ scenarios[i].name = name
                   /\ \A j \in 1..(i - 1) : scenarios[j].name # name
                   /\ LET report == console'[Len(console')] IN
                      [k \in 1..Len(report.contributions) |->
                          report.contributions[k].appliance]
                        = scenarios[i].household.appliances]_vars

OriginalReportedDespiteDuplicate ==
    /\ pc = "awaiting"
    /\ Typed("show_scenario_report")
    /\ Len(scenarios) = 2
    /\ scenarios[1].name = scenarios[2].name
    /\ scenarios[2].household.appliances # <<>>
    /\ selected = 1
    /\ Len(console) > 0
    /\ LastLine.kind = "report"
    /\ LastLine.contributions = <<>>
====
